---- MODULE Spec2Model ----
(***************************************************************************)
(* The Chat page component of investo-glow (src/unnamed/part_000): the     *)
(* React state of the component, the closure of its latest render, the     *)
(* asynchronous handleSubmit routine with its two awaits (the gateway      *)
(* fetch inside callChatAPI and the supabase insert), and the user events  *)
(* that reach it.                                                          *)
(*                                                                         *)
(* Texts that the code trims (the draft, a prompt) are sequences of atoms: *)
(* the atom " " is one whitespace character, any other atom is a run of    *)
(* characters that starts and ends with a non-whitespace character.        *)
(* Texts that the code only copies (a gateway reply) are strings.          *)
(*                                                                         *)
(* Rendering: state updates made inside a discrete DOM event handler are   *)
(* flushed by React before the next event is dispatched, so an event       *)
(* action ends with a render. Updates made after an await are batched and  *)
(* rendered later: the action Render. Event handlers always run as the     *)
(* closures of the latest render (view), and a running handleSubmit keeps  *)
(* the closure values it started with.                                     *)
(***************************************************************************)
EXTENDS Naturals, Sequences, FiniteSets, TLC

VARIABLES
    query,          \* useState('')        line 29: the draft
    loading,        \* useState(false)     line 30: the busy flag
    messages,       \* useState([])        line 31: the conversation
    assistantType,  \* useState('general') line 32: the mode
    user,           \* useAuth().user      line 33: the identity, or NoUser
    view,           \* the state values captured by the closures of the latest render
    inflight,       \* the handleSubmit activations suspended at an await
    nSub,           \* accepted submissions so far
    nFetch,         \* fetch() calls started so far (line 59)
    nInsert,        \* supabase inserts started so far (lines 97-106)
    toasts,         \* toast() calls so far (line 114)
    ev,             \* <<>> or <<the handleSubmit call made by the last step>>
    settled,        \* <<>> or <<the submission settled by the last step>>
    kept            \* the submissions whose Exchange was in the conversation when they settled

vars == <<query, loading, messages, assistantType, user, view, inflight,
          nSub, nFetch, nInsert, toasts, ev, settled, kept>>

\* Accepted submissions in one behaviour.
MaxSubmits == 2

----------------------------------------------------------------------------
\* Data

NoUser == "null"
Users == {"u1"}

AssistantTypes == {"general", "financial"}

\* The pending sentinel of line 85, tested by the renderer at line 187.
Pending == "..."

\* line 72
FallbackEmpty == "Sorry, I couldn't process your request."
\* line 75
FallbackError == "Sorry, there was an error connecting to the assistant. Please try again later."

\* lines 20-26: no preset starts or ends with whitespace, so each is one atom.
presetPrompts ==
    << <<"What's the current market sentiment for Bitcoin?">>,
       <<"Explain the concept of DeFi in simple terms">>,
       <<"What are the key factors affecting crypto prices?">>,
       <<"How do I create a diversified crypto portfolio?">>,
       <<"What are the risks of cryptocurrency investing?">> >>

\* The preset buttons the user clicks in a behaviour.
ClickedPresets == {1}

\* The values the user gives the input field.
Drafts == { <<>>, <<" ">>, <<"hi">>, <<" ", "hi", " ">>, <<"a", " ", "b">> }

IsSpace(c) == c = " "

RECURSIVE trimStart(_)
trimStart(s) == IF s # <<>> /\ IsSpace(Head(s)) THEN trimStart(Tail(s)) ELSE s

RECURSIVE trimEnd(_)
trimEnd(s) ==
    IF s # <<>> /\ IsSpace(s[Len(s)]) THEN trimEnd(SubSeq(s, 1, Len(s) - 1)) ELSE s

\* String.prototype.trim, as used at lines 80, 85, 90, 93, 102.
trim(s) == trimEnd(trimStart(s))

\* What the gateway can do with one request: fetch rejects (kind "reject"), or a
\* response arrives with a status and a JSON body that has a response field or not.
NetworkError == [kind |-> "reject", status |-> 0, has |-> FALSE, response |-> ""]
Http(s, h, r) == [kind |-> "response", status |-> s, has |-> h, response |-> r]

GatewayOutcomes ==
    { NetworkError,
      Http(500, FALSE, ""),
      Http(200, TRUE, "Bullish"),
      Http(200, TRUE, Pending),
      Http(200, TRUE, ""),
      Http(200, FALSE, "") }

\* Response.ok
ok(status) == status \in 200..299

\* The gateway call failed: fetch threw, or the status is not a success status.
GatewayFailed(o) == o.kind = "reject" \/ ~ok(o.status)

\* What the awaited supabase insert yields: {error: null}, {error}, or a rejection.
InsertOutcomes == {"ok", "error", "reject"}

----------------------------------------------------------------------------
\* Pure parts of the component

\* lines 55-57
endpoint(mode) ==
    IF mode = "general" THEN "https://investo-server-dlii.onrender.com/chat"
                        ELSE "https://investo-server-dlii.onrender.com/agent"

\* callChatAPI without the response.ok test of lines 67-69.
callChatAPIIgnoresStatus(o) ==
    IF o.kind = "reject" THEN FallbackError
    ELSE IF o.has /\ o.response # "" THEN o.response
    ELSE FallbackEmpty

\* callChatAPI returning data.response without the || of line 72.
callChatAPINoFallback(o) ==
    IF o.kind = "reject" THEN FallbackError
    ELSE IF ~ok(o.status) THEN FallbackError
    ELSE o.response

\* lines 53-77: the string callChatAPI resolves to, for each gateway outcome.
callChatAPI(o) ==
    IF o.kind = "reject" THEN FallbackError
    ELSE IF ~ok(o.status) THEN FallbackError
    ELSE IF o.has /\ o.response # "" THEN o.response
    ELSE FallbackEmpty

\* The guard without its loading test.
AcceptsWhileLoading(promptText) ==
    ~(trim(promptText) = <<>> \/ view.user = NoUser)

\* The guard without its identity test.
AcceptsWithoutIdentity(promptText) ==
    ~(trim(promptText) = <<>> \/ view.loading)

\* The guard testing promptText instead of promptText.trim().
AcceptsUntrimmed(promptText) ==
    ~(promptText = <<>> \/ view.user = NoUser \/ view.loading)

\* line 80: the guard of handleSubmit, read from the closure of the latest render.
Accepts(promptText) ==
    ~(trim(promptText) = <<>> \/ view.user = NoUser \/ view.loading)

\* line 85
updatedMessages(msgs, promptText) ==
    Append(msgs, [query |-> trim(promptText), response |-> Pending])

\* The final Exchange built from promptText instead of promptText.trim().
finalMessagesUntrimmed(c, aiResponse) ==
    Append(c.messages, [query |-> c.promptText, response |-> aiResponse])

\* The final Exchange appended to the list that holds the placeholder.
finalMessagesAfterPending(c, aiResponse) ==
    Append(updatedMessages(c.messages, c.promptText),
           [query |-> trim(c.promptText), response |-> aiResponse])

\* line 93: c is the suspended activation, whose closure holds promptText and messages.
finalMessages(c, aiResponse) ==
    Append(c.messages, [query |-> trim(c.promptText), response |-> aiResponse])

\* The row built with the placeholder response of the optimistic Exchange.
insertRowPlaceholder(c, aiResponse) ==
    [user_id |-> c.user, query |-> trim(c.promptText), response |-> Pending,
     assistant_type |-> c.assistantType]

\* The row built with the mode selected when the insert is issued.
insertRowCurrentMode(c, aiResponse) ==
    [user_id |-> c.user, query |-> trim(c.promptText), response |-> aiResponse,
     assistant_type |-> assistantType]

\* The row built from promptText instead of promptText.trim().
insertRowUntrimmed(c, aiResponse) ==
    [user_id |-> c.user, query |-> c.promptText, response |-> aiResponse,
     assistant_type |-> c.assistantType]

\* lines 99-105
insertRow(c, aiResponse) ==
    [user_id |-> c.user, query |-> trim(c.promptText), response |-> aiResponse,
     assistant_type |-> c.assistantType]

\* The row field of an activation that has not reached the insert.
NoRow == [user_id |-> NoUser, query |-> <<>>, response |-> "", assistant_type |-> "general"]

\* line 108: the awaited insert makes handleSubmit throw into its catch block.
InsertThrows(r) == r # "ok"

\* The rollback as setMessages(updatedMessages).
rolledBackToPlaceholder(c) == updatedMessages(c.messages, c.promptText)

\* The rollback as setMessages([]).
rolledBackToEmpty(c) == <<>>

\* line 120
rolledBack(c) == c.messages

\* setLoading(false) as the last statement of the try block instead of in finally.
loadingClearedInTry(r) == InsertThrows(r)

\* line 122: the value loading is given in the finally block; r is the insert's outcome.
loadingAfterSettle(r) == FALSE

\* lines 187-196: the exchange is drawn as the animated placeholder.
ShownPending(msg) == msg.response = Pending

\* The values a render hands to the closures it creates.
Rendered(q, l, m, a, u) ==
    [query |-> q, loading |-> l, messages |-> m, assistantType |-> a, user |-> u]

RemoveAt(s, i) == SubSeq(s, 1, i - 1) \o SubSeq(s, i + 1, Len(s))

\* The draft kept when a submit is accepted.
draftAfterAcceptKept(promptText) == query

\* line 87
draftAfterAccept(promptText) == <<>>

\* lines 79-90: the activation of handleSubmit created by an accepted call made from
\* the closures of render v. It holds what those closures captured (promptText,
\* messages, assistantType, user), the URL callChatAPI fetches (line 55 runs before
\* the first await), where the activation is suspended (pc), and what it has
\* received so far (gw, aiResponse, row). before, mode0, user0 and toasts0 record
\* the component's state at the moment of the call.
Activation(v, promptText) ==
    [id |-> nSub + 1,
     promptText |-> promptText,
     messages |-> v.messages,
     assistantType |-> v.assistantType,
     user |-> v.user,
     endpoint |-> endpoint(v.assistantType),
     pc |-> "fetch",
     gw |-> NetworkError,
     aiResponse |-> "",
     row |-> NoRow,
     before |-> messages,
     mode0 |-> assistantType,
     user0 |-> user,
     toasts0 |-> toasts]

\* line 215, then lines 205-210 with lines 79-90: what setQuery(text), the render it
\* causes, and handleSubmit(query) called from that render's closures make of the
\* current state.
ViaDraft(text) ==
    LET v == Rendered(text, loading, messages, assistantType, user)
        accepted == ~(trim(v.query) = <<>> \/ v.user = NoUser \/ v.loading)
    IN  IF accepted
        THEN [accepted |-> TRUE,
              query |-> draftAfterAccept(v.query),
              loading |-> TRUE,
              messages |-> updatedMessages(v.messages, v.query),
              inflight |-> Append(inflight, Activation(v, v.query)),
              nSub |-> nSub + 1,
              nFetch |-> nFetch + 1,
              nInsert |-> nInsert,
              toasts |-> toasts]
        ELSE [accepted |-> FALSE,
              query |-> text,
              loading |-> loading,
              messages |-> messages,
              inflight |-> inflight,
              nSub |-> nSub,
              nFetch |-> nFetch,
              nInsert |-> nInsert,
              toasts |-> toasts]

----------------------------------------------------------------------------
Init ==
    /\ query = <<>>
    /\ loading = FALSE
    /\ messages = <<>>
    /\ assistantType = "general"
    /\ user \in Users \cup {NoUser}
    /\ view = Rendered(query, loading, messages, assistantType, user)
    /\ inflight = <<>>
    /\ nSub = 0
    /\ nFetch = 0
    /\ nInsert = 0
    /\ toasts = 0
    /\ ev = <<>>
    /\ settled = <<>>
    /\ kept = <<>>

\* lines 79-90: handleSubmit up to its first await (the fetch inside callChatAPI),
\* followed by the render that React flushes at the end of the event.
handleSubmit(promptText) ==
    /\ nSub < MaxSubmits
    /\ ev' = << [promptText |-> promptText, accepted |-> Accepts(promptText)] >>
    /\ settled' = <<>>
    /\ IF Accepts(promptText)
       THEN /\ loading' = TRUE
            /\ messages' = updatedMessages(view.messages, promptText)
            /\ query' = draftAfterAccept(promptText)
            /\ inflight' = Append(inflight, Activation(view, promptText))
            /\ nSub' = nSub + 1
            /\ nFetch' = nFetch + 1
            /\ view' = Rendered(query', loading', messages', assistantType, user)
            /\ UNCHANGED <<assistantType, user, nInsert, toasts, kept>>
       ELSE UNCHANGED <<query, loading, messages, assistantType, user, view,
                        inflight, nSub, nFetch, nInsert, toasts, kept>>

\* lines 205-210: the form's onSubmit.
FormSubmit == handleSubmit(view.query)

\* lines 46-51: Enter without Shift submits the draft; any other key is left alone.
handleKeyDown(key, shiftKey) ==
    IF key = "Enter" /\ ~shiftKey
    THEN handleSubmit(view.query)
    ELSE /\ ev' = <<>>
         /\ settled' = <<>>
         /\ UNCHANGED <<query, loading, messages, assistantType, user, view,
                        inflight, nSub, nFetch, nInsert, toasts, kept>>

KeyDown == \E key \in {"Enter", "a"}, shiftKey \in BOOLEAN : handleKeyDown(key, shiftKey)

\* lines 143-153: a preset button.
PresetClick == \E i \in ClickedPresets : handleSubmit(presetPrompts[i])

\* line 215: onChange of the input, which is disabled while the rendered loading is true
\* (line 218).
Type ==
    /\ ~view.loading
    /\ \E t \in Drafts :
          /\ t # query
          /\ query' = t
    /\ view' = Rendered(query', loading, messages, assistantType, user)
    /\ ev' = <<>>
    /\ settled' = <<>>
    /\ UNCHANGED <<loading, messages, assistantType, user, inflight,
                   nSub, nFetch, nInsert, toasts, kept>>

\* The mode change that also starts a new conversation.
handleAssistantChangeResets(value) ==
    /\ assistantType' = value
    /\ messages' = <<>>
    /\ view' = Rendered(query, loading, messages', assistantType', user)
    /\ ev' = <<>>
    /\ settled' = <<>>
    /\ UNCHANGED <<query, loading, user, inflight,
                   nSub, nFetch, nInsert, toasts, kept>>

\* lines 42-44, from the Select of line 158, which is never disabled.
handleAssistantChange(value) ==
    /\ assistantType' = value
    /\ view' = Rendered(query, loading, messages, assistantType', user)
    /\ ev' = <<>>
    /\ settled' = <<>>
    /\ UNCHANGED <<query, loading, messages, user, inflight,
                   nSub, nFetch, nInsert, toasts, kept>>

SetMode == \E value \in AssistantTypes : value # assistantType /\ handleAssistantChange(value)

\* line 33: the authentication context hands the component another identity; the
\* provider's update and the component's render are one commit.
AuthChange ==
    /\ \E u \in Users \cup {NoUser} :
          /\ u # user
          /\ user' = u
    /\ view' = Rendered(query, loading, messages, assistantType, user')
    /\ ev' = <<>>
    /\ settled' = <<>>
    /\ UNCHANGED <<query, loading, messages, assistantType, inflight,
                   nSub, nFetch, nInsert, toasts, kept>>

\* lines 59-77 and 90-106: the gateway answers, callChatAPI resolves, and handleSubmit
\* runs on to its second await (the insert).
GatewayReturns ==
    \E i \in 1..Len(inflight), o \in GatewayOutcomes :
        LET c == inflight[i]
            aiResponse == callChatAPI(o)
        IN  /\ c.pc = "fetch"
            /\ messages' = finalMessages(c, aiResponse)
            /\ inflight' = [inflight EXCEPT ![i] =
                   [c EXCEPT !.pc = "insert", !.gw = o, !.aiResponse = aiResponse,
                             !.row = insertRow(c, aiResponse)]]
            /\ nInsert' = nInsert + 1
            /\ ev' = <<>>
            /\ settled' = <<>>
            /\ UNCHANGED <<query, loading, assistantType, user, view,
                           nSub, nFetch, toasts, kept>>

\* lines 108-125: the insert answers; handleSubmit throws into catch or not, and
\* finally clears loading.
InsertReturns ==
    \E i \in 1..Len(inflight), r \in InsertOutcomes :
        LET c == inflight[i]
        IN  /\ c.pc = "insert"
            /\ IF InsertThrows(r)
               THEN /\ toasts' = toasts + 1
                    /\ messages' = rolledBack(c)
               ELSE UNCHANGED <<toasts, messages>>
            /\ loading' = loadingAfterSettle(r)
            /\ inflight' = RemoveAt(inflight, i)
            /\ ev' = <<>>
            /\ settled' = << [call |-> c,
                              log |-> r,
                              after |-> messages',
                              toasts |-> toasts' - c.toasts0] >>
            /\ kept' = IF Len(messages') > Len(c.before)
                       THEN Append(kept, [id |-> c.id,
                                          exchange |-> [query |-> trim(c.promptText),
                                                        response |-> c.aiResponse]])
                       ELSE kept
            /\ UNCHANGED <<query, assistantType, user, view, nSub, nFetch, nInsert>>

\* The render React schedules for the state updates made after an await.
Render ==
    /\ view # Rendered(query, loading, messages, assistantType, user)
    /\ view' = Rendered(query, loading, messages, assistantType, user)
    /\ ev' = <<>>
    /\ settled' = <<>>
    /\ UNCHANGED <<query, loading, messages, assistantType, user, inflight,
                   nSub, nFetch, nInsert, toasts, kept>>

Next ==
    \/ FormSubmit
    \/ KeyDown
    \/ PresetClick
    \/ Type
    \/ SetMode
    \/ AuthChange
    \/ GatewayReturns
    \/ InsertReturns
    \/ Render

Spec == Init /\ [][Next]_vars

\* The gateway call and the log write each return, and scheduled renders run.
FairSpec ==
    Spec /\ WF_vars(GatewayReturns) /\ WF_vars(InsertReturns) /\ WF_vars(Render)

----------------------------------------------------------------------------
TypeOK ==
    /\ loading \in BOOLEAN
    /\ assistantType \in AssistantTypes
    /\ user \in Users \cup {NoUser}
    /\ Len(inflight) <= MaxSubmits
    /\ Len(ev) <= 1
    /\ Len(settled) <= 1

----------------------------------------------------------------------------
\* Properties of handleSubmit

\* The Exchange a settled submission finalized: its trimmed prompt with the text
\* callChatAPI resolved to.
FinalExchange(c) == [query |-> trim(c.promptText), response |-> c.aiResponse]

\* What the step just taken changed of the things a rejected submit must leave alone.
SubmitFrameUnchanged ==
    UNCHANGED <<messages, query, loading, inflight, nSub, nFetch, nInsert, toasts>>

\* C1: once an accepted submission has settled, the conversation is the conversation
\* from before the call followed by exactly one finalized Exchange, whatever the
\* gateway and the log write did.
C1_ExactlyOneFinalized ==
    settled # <<>> =>
        /\ settled[1].after = Append(settled[1].call.before, FinalExchange(settled[1].call))
        /\ messages = settled[1].after

\* C2: at most one submission is in flight, and a submit made while loading is true is
\* rejected: it starts no fetch and no insert and leaves the conversation, the draft
\* and loading as they were.
C2_RejectedWhileBusy ==
    [][ /\ Len(inflight') <= 1
        /\ (ev' # <<>> /\ loading) => (~ev'[1].accepted /\ SubmitFrameUnchanged) ]_vars

\* C2 witness: a submit with a non-blank prompt and an identity was rejected while a
\* submission was awaiting its insert.
C2_Witness ==
    /\ ev # <<>>
    /\ ~ev[1].accepted
    /\ trim(ev[1].promptText) # <<>>
    /\ user # NoUser
    /\ loading
    /\ Len(inflight) = 1
    /\ inflight[1].pc = "insert"

\* C3: a submit whose prompt is empty or all whitespace, or that is made without an
\* identity, changes nothing: conversation, loading, draft, fetches, inserts, toasts.
C3_SilentNoOp ==
    [][ (ev' # <<>> /\ (trim(ev'[1].promptText) = <<>> \/ user = NoUser))
            => (~ev'[1].accepted /\ SubmitFrameUnchanged) ]_vars

\* C3 witness: a whitespace-only prompt was rejected with an identity present and
\* nothing in flight.
C3_Witness ==
    /\ ev # <<>>
    /\ ~ev[1].accepted
    /\ ev[1].promptText = <<" ">>
    /\ user # NoUser
    /\ ~loading

\* C4 as claimed: after a gateway failure the settled conversation is the one from
\* before the call, one toast was raised, and loading is false.
C4_GatewayFailureRollsBack ==
    (settled # <<>> /\ GatewayFailed(settled[1].call.gw)) =>
        /\ messages = settled[1].call.before
        /\ settled[1].toasts = 1
        /\ ~loading

\* C4 amended: after a gateway failure followed by a successful log write, the settled
\* conversation is the one from before the call plus the Exchange that holds the
\* connection-error fallback text, no toast was raised, and loading is false.
C4_GatewayFailureKeepsFallback ==
    (settled # <<>> /\ GatewayFailed(settled[1].call.gw) /\ settled[1].log = "ok") =>
        /\ messages = Append(settled[1].call.before,
                             [query |-> trim(settled[1].call.promptText),
                              response |-> FallbackError])
        /\ settled[1].toasts = 0
        /\ ~loading

\* C4 witness: a submission whose gateway answered 500 settled with its log written.
C4_Witness ==
    /\ settled # <<>>
    /\ settled[1].call.gw.kind = "response"
    /\ settled[1].call.gw.status = 500
    /\ settled[1].log = "ok"
    /\ Len(messages) = Len(settled[1].call.before) + 1

\* C5: a failed gateway call reaches handleSubmit as the connection-error fallback
\* text, and is handled as an answer: no toast, the conversation ends with the
\* finalized Exchange holding that text, and the row sent to the log holds it too.
C5_GatewayFailureMasked ==
    \A i \in 1..Len(inflight) :
        (inflight[i].pc = "insert" /\ GatewayFailed(inflight[i].gw)) =>
            /\ inflight[i].aiResponse = FallbackError
            /\ toasts = inflight[i].toasts0
            /\ messages = Append(inflight[i].before,
                                 [query |-> trim(inflight[i].promptText),
                                  response |-> FallbackError])
            /\ inflight[i].row.response = FallbackError
            /\ inflight[i].row.query = trim(inflight[i].promptText)

\* C5 witness: fetch rejected, and the submission is awaiting its insert.
C5_Witness ==
    /\ Len(inflight) = 1
    /\ inflight[1].pc = "insert"
    /\ inflight[1].gw.kind = "reject"
    /\ nInsert = 1

\* C6: after a failed log write the finalized Exchange stays in the conversation and
\* exactly one toast was raised.
C6_LogFailureKeepsExchange ==
    (settled # <<>> /\ settled[1].log # "ok") =>
        /\ messages = Append(settled[1].call.before, FinalExchange(settled[1].call))
        /\ settled[1].toasts = 1

\* C7: with loading false, no Exchange of the conversation is drawn as pending.
C7_NoPendingWhenIdle ==
    ~loading => \A i \in 1..Len(messages) : ~ShownPending(messages[i])

\* C8: loading is true exactly while a submission is in flight, only acceptance sets
\* it and only settlement clears it, and every submission in flight settles.
C8_BusyBrackets ==
    /\ [](loading <=> inflight # <<>>)
    /\ [][ /\ (~loading /\ loading') => (nSub' = nSub + 1 /\ ev' # <<>> /\ ev'[1].accepted)
           /\ (loading /\ ~loading') => settled' # <<>> ]_vars
    /\ (loading ~> ~loading)

\* C8 witness: a submission settled on the failing path and loading is false.
C8_Witness ==
    /\ settled # <<>>
    /\ settled[1].log = "error"
    /\ ~loading
    /\ inflight = <<>>
    /\ nSub = 1

\* C9: when the gateway returned non-empty text and the log write succeeded, the
\* settled conversation is the one from before the call plus {trim(p), r}, loading is
\* false, the draft is empty and no toast was raised.
C9_SuccessPath ==
    (/\ settled # <<>>
     /\ settled[1].log = "ok"
     /\ ~GatewayFailed(settled[1].call.gw)
     /\ settled[1].call.gw.has
     /\ settled[1].call.gw.response # "") =>
        /\ messages = Append(settled[1].call.before,
                             [query |-> trim(settled[1].call.promptText),
                              response |-> settled[1].call.gw.response])
        /\ ~loading
        /\ query = <<>>
        /\ settled[1].toasts = 0

\* C9 witness: the draft " hi " was submitted, answered "Bullish" and logged.
C9_Witness ==
    /\ settled # <<>>
    /\ settled[1].log = "ok"
    /\ settled[1].call.promptText = <<" ", "hi", " ">>
    /\ settled[1].call.gw.response = "Bullish"
    /\ messages = <<[query |-> <<"hi">>, response |-> "Bullish"]>>

\* The Exchanges of the submissions that kept theirs, in the order they settled.
KeptExchanges == [i \in 1..Len(kept) |-> kept[i].exchange]

IsPrefix(s, t) == Len(s) <= Len(t) /\ SubSeq(t, 1, Len(s)) = s

\* C10: the conversation holds the finalized Exchanges in the order their submits were
\* accepted: it starts with the Exchanges of the earlier submissions, in acceptance
\* order, and a submission in flight adds at most its own Exchange after them.
C10_SubmissionOrder ==
    /\ \A i, j \in 1..Len(kept) : i < j => kept[i].id < kept[j].id
    /\ IsPrefix(KeptExchanges, messages)
    /\ Len(messages) <= Len(kept) + Len(inflight)
    /\ inflight = <<>> => messages = KeptExchanges

\* C10 witness: a second submission was finalized after a different first one.
C10_Witness ==
    /\ Len(kept) = 1
    /\ Len(inflight) = 1
    /\ inflight[1].pc = "insert"
    /\ Len(messages) = 2
    /\ messages[1] # messages[2]

\* C11: a step that changes the mode changes nothing else of the session: the
\* conversation, the draft, loading, the activations in flight with the values they
\* captured, and the numbers of fetches, inserts and toasts stay as they were.
C11_SetModeFrame ==
    [][ assistantType' # assistantType =>
            UNCHANGED <<messages, query, loading, inflight, user,
                        nSub, nFetch, nInsert, toasts, kept>> ]_vars

\* C11 witness: the mode was changed while a submission awaited the gateway, after an
\* earlier Exchange had been kept.
C11_Witness ==
    /\ Len(inflight) = 1
    /\ inflight[1].pc = "fetch"
    /\ inflight[1].mode0 # assistantType
    /\ view.assistantType = assistantType
    /\ Len(messages) = 2

\* C12: the URL an activation fetched and the assistant_type of the row it sends to
\* the log both belong to the mode that was selected when its submit was accepted,
\* whatever the mode is by then.
C12_ModeOfSubmission ==
    /\ \A i \in 1..Len(inflight) :
          /\ inflight[i].endpoint = endpoint(inflight[i].mode0)
          /\ inflight[i].pc = "insert" =>
                /\ inflight[i].row.assistant_type = inflight[i].mode0
                /\ endpoint(inflight[i].row.assistant_type) = inflight[i].endpoint
    /\ settled # <<>> =>
          /\ settled[1].call.row.assistant_type = settled[1].call.mode0
          /\ endpoint(settled[1].call.row.assistant_type) = settled[1].call.endpoint

\* C12 witness: the mode was changed from general to financial during the flight, and
\* the insert was issued for the chat endpoint's answer.
C12_Witness ==
    /\ Len(inflight) = 1
    /\ inflight[1].pc = "insert"
    /\ inflight[1].mode0 = "general"
    /\ assistantType = "financial"
    /\ inflight[1].row.assistant_type = "general"
    /\ inflight[1].endpoint = "https://investo-server-dlii.onrender.com/chat"

\* The session after a handleSubmit call, in the shape ViaDraft gives.
AfterSubmit ==
    [accepted |-> ev # <<>> /\ ev[1].accepted,
     query |-> query,
     loading |-> loading,
     messages |-> messages,
     inflight |-> inflight,
     nSub |-> nSub,
     nFetch |-> nFetch,
     nInsert |-> nInsert,
     toasts |-> toasts]

\* The step just taken is a click on a preset button, made on a page rendered from
\* the current state.
PresetStep ==
    /\ view = Rendered(query, loading, messages, assistantType, user)
    /\ ev' # <<>>
    /\ ev'[1].promptText \in {presetPrompts[i] : i \in ClickedPresets}

\* C13 as claimed: a preset click leaves the session exactly as setting the draft to
\* the preset's text and submitting the draft would: same acceptance, conversation,
\* draft, loading, activations in flight, fetches, inserts and toasts.
C13_PresetSameAsViaDraft ==
    [][ PresetStep => AfterSubmit' = ViaDraft(ev'[1].promptText) ]_vars

\* C13 amended: the two agree on acceptance and on everything but the draft; the
\* draft is empty after both when the submit is accepted, and when it is rejected the
\* preset click leaves the draft as it was while the other sequence leaves the
\* preset's text in it.
C13_PresetSameButDraft ==
    [][ PresetStep =>
            LET alt == ViaDraft(ev'[1].promptText)
            IN  /\ [AfterSubmit' EXCEPT !.query = alt.query] = alt
                /\ alt.accepted => (query' = <<>> /\ alt.query = <<>>)
                /\ ~alt.accepted => (query' = query /\ alt.query = ev'[1].promptText) ]_vars

\* C13 witness: a preset click was accepted on a conversation that already held an
\* Exchange.
C13_Witness ==
    /\ ev # <<>>
    /\ ev[1].accepted
    /\ ev[1].promptText = presetPrompts[1]
    /\ Len(inflight) = 1
    /\ Len(messages) = 2
    /\ query = <<>>

\* The conversation as it was finalized before the current submission was accepted.
Base == IF inflight # <<>> THEN inflight[1].before ELSE messages

\* C14: every step leaves the Exchanges finalized before the current submission in
\* place, as a prefix of the conversation with the same queries and responses in the
\* same order; what follows them is at most the current submission's one Exchange.
C14_AppendOnly ==
    [][ IsPrefix(Base, messages') /\ Len(messages') <= Len(Base) + 1 ]_vars

\* C14 witness: the second submission's Exchange was removed at its settlement and
\* the first submission's Exchange is still the conversation.
C14_Witness ==
    /\ settled # <<>>
    /\ settled[1].call.id = 2
    /\ settled[1].log = "error"
    /\ Len(kept) = 1
    /\ kept[1].id = 1
    /\ messages = KeptExchanges

\* The activations in flight that have issued their insert.
AtInsert == {i \in 1..Len(inflight) : inflight[i].pc = "insert"}

\* The row is the one the claim describes for activation c.
RowOf(c) ==
    /\ c.row.user_id = c.user0
    /\ c.user0 # NoUser
    /\ c.row.query = trim(c.promptText)
    /\ c.row.response = c.aiResponse

\* C15: the inserts started are one for each submission whose gateway call has
\* returned (settled or not, failed or not) and none for any other; each row carries
\* the identity that submitted, the trimmed prompt and the response text placed in
\* the finalized Exchange.
C15_OneInsertPerSubmission ==
    /\ nInsert = Cardinality(AtInsert) + (nSub - Len(inflight))
    /\ \A i \in AtInsert :
          /\ RowOf(inflight[i])
          /\ Len(messages) = Len(inflight[i].before) + 1
          /\ messages[Len(messages)] =
                [query |-> inflight[i].row.query, response |-> inflight[i].row.response]
    /\ settled # <<>> => RowOf(settled[1].call)

\* C15 witness: the only submission's insert failed, it has settled, and one insert
\* was started.
C15_Witness ==
    /\ settled # <<>>
    /\ settled[1].log = "error"
    /\ inflight = <<>>
    /\ nSub = 1
    /\ nInsert = 1

EmptyAnswer(o) == o.kind = "response" /\ ok(o.status) /\ (~o.has \/ o.response = "")

\* C17: no Exchange of the conversation has the empty string as its response; an
\* answer with success status and empty or missing text puts the line-72 string in
\* the finalized Exchange and in the row sent to the log.
C17_NeverEmptyResponse ==
    /\ \A i \in 1..Len(messages) : messages[i].response # ""
    /\ \A i \in AtInsert :
          /\ inflight[i].row.response # ""
          /\ EmptyAnswer(inflight[i].gw) =>
                /\ messages[Len(messages)].response = FallbackEmpty
                /\ inflight[i].row.response = FallbackEmpty

\* C17 witness: the gateway answered 200 with the response field missing, and the
\* submission awaits its insert.
C17_Witness ==
    /\ Len(inflight) = 1
    /\ inflight[1].pc = "insert"
    /\ inflight[1].gw = Http(200, FALSE, "")
    /\ messages[Len(messages)].response = FallbackEmpty

\* C18: after a submission that settled on the failing path (toast raised), the
\* conversation is the one from before the submit and the draft is empty, not the
\* submitted text.
C18_DraftNotRestored ==
    (settled # <<>> /\ settled[1].toasts = 1) =>
        /\ messages = settled[1].call.before
        /\ query = <<>>
        /\ query # settled[1].call.promptText

\* C18 witness: the draft " hi " was submitted, the insert was rejected, and neither
\* the draft nor the conversation holds anything.
C18_Witness ==
    /\ settled # <<>>
    /\ settled[1].log = "reject"
    /\ settled[1].call.promptText = <<" ", "hi", " ">>
    /\ query = <<>>
    /\ messages = <<>>

====
